---- MODULE Spec2Model ----
(***************************************************************************)
(* Model of the review-session handler of cards-backend (src/src/pages.rs, *)
(* page_action) together with the record store queries it calls            *)
(* (src/src/queries.rs) and the per-deck cache active_decks.               *)
(*                                                                         *)
(* Timestamps are integers counting microseconds (the resolution of the   *)
(* store's timestamp columns); chrono's num_milliseconds() truncates them  *)
(* to milliseconds before the recency weight is computed in f32.           *)
(***************************************************************************)
EXTENDS Integers, Sequences, FiniteSets, TLC

\* ------------------------------------------------------------------ bounds
MaxCards  == 1       \* longest freely drawn deck the handler is run on
MaxSched  == 2       \* longest freely drawn deck the scheduler is run on
MaxFree   == 1       \* freely drawn cards in a deck that exceeds the quota
MaxExtra  == 1       \* cards beyond the quota in such a deck
MaxIndex  == 2       \* largest card_index a request carries
MaxCardId == 4       \* largest id the cards table hands out

\* --------------------------------------------------------- input domains
Tasks      == {1, 2}              \* request tasks (tokio tasks of axum)
SeqTasks   == {1}                 \* tasks used when requests do not overlap
DeckIds    == {1, 2}              \* deck ids a request may name
Sides      == {"from", "to"}      \* card_side path segment
Ratings    == 0 .. 4
CardTimes  == {0, 500, 2000}      \* updated_at values of stored cards
ClockTimes == {2000, 3000}        \* readings of chrono::Utc::now()
PadTypes   == {<<2, 0>>, <<3, 2000>>}   \* <<rating, updated_at>> of padding
ApiCardIds == {2}                 \* card ids a card API request names
DeletedCardIds == {1, 2, 3}       \* card ids a card deletion names
UserIds    == {1, 2}              \* ids of the users table
UserNames  == {"glencoden", "coden"}    \* UserForm.name values submitted
SubmittedRatings == {0, 5}        \* CardForm.rating values submitted

\* ----------------------------------------------------- program constants
USER_ID            == 1           \* app_state.user.id
DAILY_REVIEW_COUNT == 9           \* the literal 9 of rule 3
WEIGHT_DUE         == 1000000     \* rule 1
WEIGHT_FRONT       == 100000      \* rules 2 and 3
SENTINEL_TIME      == 0           \* 2016-07-08 09:10:11 of the End card
I32_MAX            == 2147483647

\* ------------------------------------------------------------ data model
\* struct Card, restricted to the fields the handler reads
Card(id, deck_id, rating, updated_at) ==
    [id |-> id, deck_id |-> deck_id, rating |-> rating, prev_rating |-> 0,
     updated_at |-> updated_at]

\* struct Deck, restricted to the fields the handler reads
Deck(id, user_id, seen_at) == [id |-> id, user_id |-> user_id, seen_at |-> seen_at]

\* struct User, restricted to its id and name
User(id, name) == [id |-> id, name |-> name]

\* Result<Vec<T>, Error>
Ok(rows) == [ok |-> TRUE, err |-> FALSE, rows |-> rows]
Err      == [ok |-> FALSE, err |-> TRUE, rows |-> << >>]

\* a result not yet assigned
Pending  == [ok |-> FALSE, err |-> FALSE, rows |-> << >>]

\* the card of the "The End" template
EndCard == [id |-> 0, deck_id |-> 0, rating |-> 0, prev_rating |-> 0,
            updated_at |-> SENTINEL_TIME]

\* variant: the End card carries the id of the requested deck
EndTemplateOwnDeck(deck_id) ==
    [card |-> [EndCard EXCEPT !.deck_id = deck_id], num_cards |-> 0,
     deck_id |-> deck_id, index |-> 0, side |-> "from", random |-> "from"]

\* ActionTemplate built at the end of page_action when no card is served
EndTemplate(deck_id) ==
    [card |-> EndCard, num_cards |-> 0, deck_id |-> deck_id, index |-> 0,
     side |-> "from", random |-> "from"]

\* ActionTemplate built for a cached card
CardTemplate(card, deck, deck_id, index, side, random) ==
    [card |-> card, num_cards |-> Len(deck), deck_id |-> deck_id, index |-> index,
     side |-> side, random |-> random]

NoResponse == [none |-> TRUE]

\* no JSON API request was answered yet
NoApiRequest == [uuid_ok |-> TRUE, status |-> 0, queries |-> 0]

\* the outcome of a JSON API request: Err(StatusCode::UNAUTHORIZED) before
\* any query function is called, or Ok(Json(..)) of the result of one call
ApiReply(uuid_ok) ==
    IF uuid_ok
    THEN [uuid_ok |-> TRUE, status |-> 200, queries |-> 1]
    ELSE [uuid_ok |-> FALSE, status |-> 401, queries |-> 0]

\* ------------------------------------------------------------- the store
\* SELECT * FROM decks WHERE id = $1 AND user_id = $2
read_deck(decks, deck_id, user_id) ==
    SelectSeq(decks, LAMBDA d : d.id = deck_id /\ d.user_id = user_id)

\* UPDATE decks SET seen_at = $1 WHERE id = $2 AND user_id = $3
update_deck_query(decks, deck_id, seen_at, user_id) ==
    [i \in DOMAIN decks |->
        IF decks[i].id = deck_id /\ decks[i].user_id = user_id
        THEN [decks[i] EXCEPT !.seen_at = seen_at]
        ELSE decks[i]]

\* SELECT * FROM cards WHERE deck_id = $1
read_cards_query(cards, deck_id) ==
    SelectSeq(cards, LAMBDA c : c.deck_id = deck_id)

\* ------------------------------------------------------------ sorting
\* variant: an unstable sort that leaves equal keys in reverse order
RankDescUnstable(keys, i) ==
    1 + Cardinality({j \in DOMAIN keys :
                        keys[j] > keys[i] \/ (keys[j] = keys[i] /\ j > i)})

\* Position (1-based) of element i after a stable sort by descending key:
\* elements with a larger key come first, equal keys keep their order.
RankDesc(keys, i) ==
    1 + Cardinality({j \in DOMAIN keys :
                        keys[j] > keys[i] \/ (keys[j] = keys[i] /\ j < i)})

\* slice::sort_by with the comparator |a, b| key(b).cmp(key(a))  (stable)
StableSortDesc(s, keys) ==
    [r \in 1 .. Len(s) |-> s[CHOOSE i \in 1 .. Len(s) : RankDesc(keys, i) = r]]

\* cards.sort_by(|a, b| b.updated_at.cmp(&a.updated_at))
SortByUpdatedAt(cs) ==
    StableSortDesc(cs, [i \in 1 .. Len(cs) |-> cs[i].updated_at])

\* Option<&i32> ordering: None sorts below every Some
WeightKey(w, id) == IF id \in DOMAIN w THEN w[id] ELSE -I32_MAX - 1

\* variant: only the quota's worth of cards is kept before the sort
SortByWeightQuota(cs, w) ==
    LET kept == SubSeq(cs, 1, IF Len(cs) < DAILY_REVIEW_COUNT
                              THEN Len(cs) ELSE DAILY_REVIEW_COUNT)
    IN  StableSortDesc(kept, [i \in 1 .. Len(kept) |-> WeightKey(w, kept[i].id)])

\* cards.sort_by(|a, b| weights.get(&b.id).cmp(&weights.get(&a.id)))
SortByWeight(cs, w) ==
    StableSortDesc(cs, [i \in 1 .. Len(cs) |-> WeightKey(w, cs[i].id)])

\* ------------------------------------------------------ f32 arithmetic
RECURSIVE Pow2(_)
Pow2(n) == IF n = 0 THEN 1 ELSE 2 * Pow2(n - 1)

\* TimeDelta::num_milliseconds of a non-negative delta in microseconds
NumMilliseconds(delta) == delta \div 1000

\* the hidden bit of the 24-bit significand of an f32
F32_HIDDEN_BIT == Pow2(23)

\* smallest j >= k with a * 2^(j - k) / s >= 2^23: called with k = 0 it is
\* the exponent that normalises the significand of a / s
RECURSIVE F32Shift(_, _, _)
F32Shift(a, s, k) ==
    IF a >= F32_HIDDEN_BIT * s THEN k ELSE F32Shift(2 * a, s, k + 1)

\* significand of the f32 quotient a / s (round to nearest, ties to even),
\* for 0 < a <= s: the quotient is F32Quot(a, s) / 2^F32Shift(a, s, 0)
F32Quot(a, s) ==
    LET k   == F32Shift(a, s, 0)
        num == a * Pow2(k)
        q   == num \div s
        r   == num % s
    IN  IF 2 * r > s \/ (2 * r = s /\ q % 2 = 1) THEN q + 1 ELSE q

\* variant: a zero span counts as the full span
WeightByLastSeenFullSpan(age_ms, span_ms) ==
    IF span_ms = 0
    THEN 4
    ELSE IF age_ms = 0
         THEN 0
         ELSE LET k == F32Shift(age_ms, span_ms, 0)
                  m == F32Quot(age_ms, span_ms)
              IN  (4 * m + Pow2(k) - 1) \div Pow2(k)

\* (current_age_number / span_number * 4_f32).ceil() as i32
\*   0.0 / 0.0 is NaN, and NaN as i32 is 0;  x / 0.0 is +inf, which saturates
WeightByLastSeen(age_ms, span_ms) ==
    IF span_ms = 0
    THEN IF age_ms = 0 THEN 0 ELSE I32_MAX
    ELSE IF age_ms = 0
         THEN 0
         ELSE LET k == F32Shift(age_ms, span_ms, 0)
                  m == F32Quot(age_ms, span_ms)
              IN  (4 * m + Pow2(k) - 1) \div Pow2(k)

\* -------------------------------------------------------- the scheduler
\* HashMap::insert
Put(w, id, weight) == [x \in (DOMAIN w) \cup {id} |-> IF x = id THEN weight ELSE w[x]]

\* variant: rule 1 compares the timestamps the other way round
RECURSIVE FirstLoopSeenAfter(_, _, _, _)
FirstLoopSeenAfter(cs, i, w, seen_at) ==
    IF i > Len(cs) THEN w
    ELSE LET card == cs[i]
             w1 == IF card.rating = 4 /\ card.updated_at < seen_at
                   THEN Put(w, card.id, WEIGHT_DUE) ELSE w
             w2 == IF card.rating = 0
                   THEN Put(w1, card.id, WEIGHT_FRONT) ELSE w1
         IN  FirstLoopSeenAfter(cs, i + 1, w2, seen_at)

\* variant: rule 2 is missing
RECURSIVE FirstLoopNoUnrated(_, _, _, _)
FirstLoopNoUnrated(cs, i, w, seen_at) ==
    IF i > Len(cs) THEN w
    ELSE LET card == cs[i]
             w1 == IF card.rating = 4 /\ seen_at < card.updated_at
                   THEN Put(w, card.id, WEIGHT_DUE) ELSE w
         IN  FirstLoopNoUnrated(cs, i + 1, w1, seen_at)

\* first loop over the sorted cards: rules 1 and 2
RECURSIVE FirstLoop(_, _, _, _)
FirstLoop(cs, i, w, seen_at) ==
    IF i > Len(cs) THEN w
    ELSE LET card == cs[i]
             w1 == IF card.rating = 4 /\ seen_at < card.updated_at
                   THEN Put(w, card.id, WEIGHT_DUE) ELSE w
             w2 == IF card.rating = 0
                   THEN Put(w1, card.id, WEIGHT_FRONT) ELSE w1
         IN  FirstLoop(cs, i + 1, w2, seen_at)

\* span of the sorted cards: youngest - oldest
Span(cs) == cs[1].updated_at - cs[Len(cs)].updated_at

\* second loop over the sorted cards, indices i .. n: rules 3 and 4
RECURSIVE SecondLoop(_, _, _, _)
SecondLoop(cs, i, n, w) ==
    IF i > n THEN w
    ELSE LET card == cs[i]
         IN  IF card.id \in DOMAIN w
             THEN SecondLoop(cs, i + 1, n, w)
             ELSE LET w3 == IF Cardinality(DOMAIN w) < DAILY_REVIEW_COUNT
                            THEN Put(w, card.id, WEIGHT_FRONT) ELSE w
                      current_age == cs[1].updated_at - card.updated_at
                      weight_by_last_seen ==
                          WeightByLastSeen(NumMilliseconds(current_age),
                                           NumMilliseconds(Span(cs)))
                  IN  SecondLoop(cs, i + 1, n,
                                 Put(w3, card.id, card.rating + weight_by_last_seen))

\* the weight map after both loops, for cards already sorted by updated_at
Weights(cs, seen_at) ==
    SecondLoop(cs, 1, Len(cs), FirstLoop(cs, 1, << >>, seen_at))

\* ------------------------------------------------------------------ state
VARIABLES
    decks,          \* store: the decks table, a sequence of Deck rows
    cards,          \* store: the cards table, a sequence of Card rows
    card_seq,       \* store: the next value of the cards table's id sequence
    users,          \* store: the users table, a sequence of User rows
    now,            \* the last reading of the clock
    active_decks,   \* app_state.active_decks: deck id -> Vec<Card>
    pc,             \* per task: where the handler stands
    params,         \* per task: Path(params) = (deck_id, card_index, card_side)
    deck_result,    \* per task: local deck_result
    cards_result,   \* per task: local cards_result as returned by the store
    seen_arg,       \* per task: DeckForm.seen_at sent with the update
    weights,        \* per task: local weights
    sorted,         \* per task: local cards after the last sort
    response,       \* per task: the template returned
    prior,          \* per task: active_decks as it was when the request arrived
    lock,           \* the RwLock around active_decks: its writer and readers
    seen_before,    \* per task: the deck rows as they were right before the
                    \*   task's own update of seen_at executed
    last_write,     \* deck id -> the task that last took the write guard for
                    \*   the deck, and the order it was about to store
    ended,          \* the deck ids an End template was returned for
    api_response    \* the outcome of the last JSON API request

vars == <<decks, cards, card_seq, users, now, active_decks, pc, params,
          deck_result, cards_result, seen_arg, weights, sorted, response, prior,
          lock, seen_before, last_write, ended, api_response>>

store == <<decks, cards, card_seq, users>>
locals == <<deck_result, cards_result, seen_arg, weights, sorted, prior>>
history == <<seen_before, last_write, ended>>

\* RwLock::new: no guard is out
Unlocked == [writer |-> 0, readers |-> {}]

NoParams == [deck_id |-> 0, index |-> 0, side |-> "from"]

\* ------------------------------------------------------------ initial state
CardTypes == Ratings \X CardTimes

\* the cards table of deck 1 built from a list of <<rating, updated_at>>
MkCards(types) ==
    [i \in 1 .. Len(types) |-> Card(i, 1, types[i][1], types[i][2])]

\* decks of at most n cards, every card drawn freely
FreeLists(n) == UNION {[1 .. m -> CardTypes] : m \in 0 .. n}

\* decks longer than the quota: freely drawn cards followed by equal padding
BigLists ==
    {f \o [i \in 1 .. (DAILY_REVIEW_COUNT - 1 + k) |-> pad] :
        f \in UNION {[1 .. n -> CardTypes] : n \in 1 .. MaxFree},
        pad \in PadTypes, k \in 1 .. MaxExtra}

\* the three-card deck of the scheduling scenario: A, C, B
ScenarioList == << <<0, 0>>, <<2, 500>>, <<4, 2000>> >>

\* the state after start-up with the given deck rows and one of the given
\* card tables in the store
StartUp(deck_rows, card_tables) ==
    /\ decks = deck_rows
    /\ cards \in card_tables
    /\ card_seq = Len(cards) + 1
    /\ users = << User(USER_ID, "glencoden") >>
    /\ now = 2000
    /\ active_decks = << >>
    /\ pc = [p \in Tasks |-> "idle"]
    /\ params = [p \in Tasks |-> NoParams]
    /\ deck_result = [p \in Tasks |-> Pending]
    /\ cards_result = [p \in Tasks |-> Pending]
    /\ seen_arg = [p \in Tasks |-> 0]
    /\ weights = [p \in Tasks |-> << >>]
    /\ sorted = [p \in Tasks |-> << >>]
    /\ response = [p \in Tasks |-> NoResponse]
    /\ prior = [p \in Tasks |-> << >>]
    /\ lock = Unlocked
    /\ seen_before = [p \in Tasks |-> << >>]
    /\ last_write = << >>
    /\ ended = {}
    /\ api_response = NoApiRequest

\* the state after start-up with the given cards of deck 1 in the store
InitWith(lists) ==
    StartUp(<< Deck(1, USER_ID, 0) >>, {MkCards(types) : types \in lists})

Init == InitWith(FreeLists(MaxCards) \cup {ScenarioList})

InitSched == InitWith(FreeLists(MaxSched) \cup BigLists \cup {ScenarioList})

\* ------------------------------------------------------------------ actions
\* variant: the side is not looked at
StartsSessionAnySide(prm) == prm.index = 0

\* line 127: does the request start a session?
StartsSession(prm) == prm.index = 0 /\ prm.side = "from"

\* A request arrives at page_action; a session start issues read_deck.
Request(p, deck_id, index, side) ==
    /\ pc[p] \in {"idle", "done", "panicked"}
    /\ LET prm == [deck_id |-> deck_id, index |-> index, side |-> side]
       IN  /\ params' = [params EXCEPT ![p] = prm]
           /\ pc' = [pc EXCEPT ![p] =
                        IF StartsSession(prm) THEN "read_deck" ELSE "read_lock"]
    /\ deck_result' = [deck_result EXCEPT ![p] = Pending]
    /\ cards_result' = [cards_result EXCEPT ![p] = Pending]
    /\ seen_arg' = [seen_arg EXCEPT ![p] = 0]
    /\ weights' = [weights EXCEPT ![p] = << >>]
    /\ sorted' = [sorted EXCEPT ![p] = << >>]
    /\ response' = [response EXCEPT ![p] = NoResponse]
    /\ prior' = [prior EXCEPT ![p] = active_decks]
    /\ seen_before' = [seen_before EXCEPT ![p] = << >>]
    /\ UNCHANGED <<api_response, store, now, active_decks, lock, last_write,
                   ended>>

\* read_deck returns; read_cards_and_set_deck_timestamp_query samples the
\* clock and issues the update.
ReadDeckDone(p, result) ==
    /\ deck_result' = [deck_result EXCEPT ![p] = result]
    /\ \E t \in ClockTimes :
          /\ t >= now
          /\ now' = t
          /\ seen_arg' = [seen_arg EXCEPT ![p] = t]
    /\ pc' = [pc EXCEPT ![p] = "update_deck"]
    /\ UNCHANGED <<api_response, store, active_decks, params, cards_result,
                   weights, sorted, response, prior, lock, history>>

ReadDeckOk(p) ==
    /\ pc[p] = "read_deck"
    /\ ReadDeckDone(p, Ok(read_deck(decks, params[p].deck_id, USER_ID)))

ReadDeckErr(p) ==
    /\ pc[p] = "read_deck"
    /\ ReadDeckDone(p, Err)

\* update_deck_query succeeds; read_cards_query is issued.
UpdateDeckOk(p) ==
    /\ pc[p] = "update_deck"
    /\ decks' = update_deck_query(decks, params[p].deck_id, seen_arg[p], USER_ID)
    /\ seen_before' = [seen_before EXCEPT ![p] =
                           read_deck(decks, params[p].deck_id, USER_ID)]
    /\ pc' = [pc EXCEPT ![p] = "read_cards"]
    /\ UNCHANGED <<api_response, cards, card_seq, users, now, active_decks,
                   params, locals, response, lock, last_write, ended>>

\* update_deck_query fails: .expect("should be defined") panics.
UpdateDeckErr(p) ==
    /\ pc[p] = "update_deck"
    /\ pc' = [pc EXCEPT ![p] = "panicked"]
    /\ UNCHANGED <<api_response, store, now, active_decks, params, locals,
                   response, lock, history>>

\* variant: the deck row is read again when the order is computed, after
\* the request's own update of seen_at
ScheduleAfterWrite(fetched, deck_rows) ==
    IF deck_rows = << >>
    THEN [panic |-> TRUE, weights |-> << >>, cards |-> << >>]
    ELSE IF fetched = << >>
    THEN [panic |-> TRUE, weights |-> << >>, cards |-> << >>]
    ELSE LET deck == read_deck(decks, deck_rows[1].id, deck_rows[1].user_id)[1]
             by_age == SortByUpdatedAt(fetched)
             w == Weights(by_age, deck.seen_at)
         IN  [panic |-> FALSE, weights |-> w, cards |-> SortByWeight(by_age, w)]

\* variant: a deck without cards yields an empty order
ScheduleEmptyOk(fetched, deck_rows) ==
    IF deck_rows = << >>
    THEN [panic |-> TRUE, weights |-> << >>, cards |-> << >>]
    ELSE IF fetched = << >>
    THEN [panic |-> FALSE, weights |-> << >>, cards |-> << >>]
    ELSE LET deck == deck_rows[1]
             by_age == SortByUpdatedAt(fetched)
             w == Weights(by_age, deck.seen_at)
         IN  [panic |-> FALSE, weights |-> w, cards |-> SortByWeight(by_age, w)]

\* lines 142-195 once both results are Ok: "panic" or the sorted cards and
\* their weights
Schedule(fetched, deck_rows) ==
    IF deck_rows = << >>
    THEN [panic |-> TRUE, weights |-> << >>, cards |-> << >>]   \* unwrap on None
    ELSE IF fetched = << >>
    THEN [panic |-> TRUE, weights |-> << >>, cards |-> << >>]   \* cards[0]
    ELSE LET deck == deck_rows[1]
             by_age == SortByUpdatedAt(fetched)
             w == Weights(by_age, deck.seen_at)
         IN  [panic |-> FALSE, weights |-> w, cards |-> SortByWeight(by_age, w)]

\* variant: the write guard is taken before the results are looked at, and
\* is still out when the handler faults
ReadCardsOkHoldingGuard(p) ==
    /\ pc[p] = "read_cards"
    /\ lock.writer = 0 /\ lock.readers = {}
    /\ \E fetched \in {read_cards_query(cards, params[p].deck_id)} :
       \E s \in {Schedule(fetched, deck_result[p].rows)} :
           /\ cards_result' = [cards_result EXCEPT ![p] = Ok(fetched)]
           /\ IF ~deck_result[p].ok
              THEN /\ pc' = [pc EXCEPT ![p] = "read_lock"]
                   /\ UNCHANGED <<weights, sorted, lock, last_write>>
              ELSE IF s.panic
              THEN /\ pc' = [pc EXCEPT ![p] = "panicked"]
                   /\ lock' = [lock EXCEPT !.writer = p]
                   /\ UNCHANGED <<weights, sorted, last_write>>
              ELSE /\ pc' = [pc EXCEPT ![p] = "insert"]
                   /\ lock' = [lock EXCEPT !.writer = p]
                   /\ last_write' = Put(last_write, params[p].deck_id,
                                        [by |-> p, order |-> s.cards])
                   /\ weights' = [weights EXCEPT ![p] = s.weights]
                   /\ sorted' = [sorted EXCEPT ![p] = s.cards]
    /\ UNCHANGED <<api_response, store, now, active_decks, params,
                   deck_result, seen_arg, response, prior, seen_before,
                   ended>>

\* read_cards_query returns Ok; the handler runs up to the call of write().
ReadCardsOk(p) ==
    /\ pc[p] = "read_cards"
    /\ \E fetched \in {read_cards_query(cards, params[p].deck_id)} :
       \E s \in {Schedule(fetched, deck_result[p].rows)} :
           /\ cards_result' = [cards_result EXCEPT ![p] = Ok(fetched)]
           /\ IF ~deck_result[p].ok
              THEN /\ pc' = [pc EXCEPT ![p] = "read_lock"]
                   /\ UNCHANGED <<weights, sorted>>
              ELSE IF s.panic
              THEN /\ pc' = [pc EXCEPT ![p] = "panicked"]
                   /\ UNCHANGED <<weights, sorted>>
              ELSE /\ pc' = [pc EXCEPT ![p] = "write_lock"]
                   /\ weights' = [weights EXCEPT ![p] = s.weights]
                   /\ sorted' = [sorted EXCEPT ![p] = s.cards]
    /\ UNCHANGED <<api_response, store, now, active_decks, params,
                   deck_result, seen_arg, response, prior, lock, history>>

\* read_cards_query returns Err; the session start is skipped.
ReadCardsErr(p) ==
    /\ pc[p] = "read_cards"
    /\ cards_result' = [cards_result EXCEPT ![p] = Err]
    /\ pc' = [pc EXCEPT ![p] = "read_lock"]
    /\ UNCHANGED <<api_response, store, now, active_decks, params,
                   deck_result, seen_arg, weights, sorted, response, prior,
                   lock, history>>

\* variant: the write guard is handed out while another guard is out
AcquireWriteUnguarded(p) ==
    /\ pc[p] = "write_lock"
    /\ lock' = [lock EXCEPT !.writer = p]
    /\ last_write' = Put(last_write, params[p].deck_id,
                         [by |-> p, order |-> sorted[p]])
    /\ pc' = [pc EXCEPT ![p] = "insert"]
    /\ UNCHANGED <<api_response, store, now, active_decks, params, locals,
                   response, seen_before, ended>>

\* line 197: active_decks.write() returns once no guard is out
AcquireWrite(p) ==
    /\ pc[p] = "write_lock"
    /\ lock.writer = 0 /\ lock.readers = {}
    /\ lock' = [lock EXCEPT !.writer = p]
    /\ last_write' = Put(last_write, params[p].deck_id,
                         [by |-> p, order |-> sorted[p]])
    /\ pc' = [pc EXCEPT ![p] = "insert"]
    /\ UNCHANGED <<api_response, store, now, active_decks, params, locals,
                   response, seen_before, ended>>

\* variant: an existing entry is kept (entry().or_insert)
InsertIfAbsent(p) ==
    /\ pc[p] = "insert"
    /\ active_decks' = IF params[p].deck_id \in DOMAIN active_decks
                       THEN active_decks
                       ELSE Put(active_decks, params[p].deck_id, sorted[p])
    /\ lock' = [lock EXCEPT !.writer = 0]
    /\ pc' = [pc EXCEPT ![p] = "read_lock"]
    /\ UNCHANGED <<api_response, store, now, params, locals, response,
                   history>>

\* lines 199-200: decks.insert(params.0, cards); the write guard is dropped
\* at the end of the block
Insert(p) ==
    /\ pc[p] = "insert"
    /\ active_decks' = Put(active_decks, params[p].deck_id, sorted[p])
    /\ lock' = [lock EXCEPT !.writer = 0]
    /\ pc' = [pc EXCEPT ![p] = "read_lock"]
    /\ UNCHANGED <<api_response, store, now, params, locals, response,
                   history>>

\* variant: a deck that returned the End template once keeps returning it
TemplateEndSticky(cache, prm, random) ==
    IF /\ prm.deck_id \notin ended
       /\ prm.deck_id \in DOMAIN cache /\ prm.index < Len(cache[prm.deck_id])
    THEN LET deck == cache[prm.deck_id]
         IN  CardTemplate(deck[prm.index + 1], deck, prm.deck_id, prm.index,
                          prm.side, random)
    ELSE EndTemplate(prm.deck_id)

\* variant: the position is taken as 1-based
TemplateOneBased(cache, prm, random) ==
    IF prm.deck_id \in DOMAIN cache /\ prm.index < Len(cache[prm.deck_id])
    THEN LET deck == cache[prm.deck_id]
         IN  CardTemplate(deck[IF prm.index = 0 THEN 1 ELSE prm.index], deck,
                          prm.deck_id, prm.index, prm.side, random)
    ELSE EndTemplate(prm.deck_id)

\* variant: an index past the end serves the last card
TemplateClamped(cache, prm, random) ==
    IF prm.deck_id \in DOMAIN cache /\ Len(cache[prm.deck_id]) > 0
    THEN LET deck == cache[prm.deck_id]
             at == IF prm.index < Len(deck) THEN prm.index ELSE Len(deck) - 1
         IN  CardTemplate(deck[at + 1], deck, prm.deck_id, prm.index,
                          prm.side, random)
    ELSE EndTemplate(prm.deck_id)

\* lines 204-271 under the read lock: the template for a request
Template(cache, prm, random) ==
    IF prm.deck_id \in DOMAIN cache /\ prm.index < Len(cache[prm.deck_id])
    THEN LET deck == cache[prm.deck_id]
         IN  CardTemplate(deck[prm.index + 1], deck, prm.deck_id, prm.index,
                          prm.side, random)
    ELSE EndTemplate(prm.deck_id)

\* variant: the read guard is handed out while the write guard is out
AcquireReadUnguarded(p) ==
    /\ pc[p] = "read_lock"
    /\ lock' = [lock EXCEPT !.readers = @ \cup {p}]
    /\ pc' = [pc EXCEPT ![p] = "serve"]
    /\ UNCHANGED <<api_response, store, now, active_decks, params, locals,
                   response, history>>

\* line 204: active_decks.read() returns once no write guard is out
AcquireRead(p) ==
    /\ pc[p] = "read_lock"
    /\ lock.writer = 0
    /\ lock' = [lock EXCEPT !.readers = @ \cup {p}]
    /\ pc' = [pc EXCEPT ![p] = "serve"]
    /\ UNCHANGED <<api_response, store, now, active_decks, params, locals,
                   response, history>>

\* variant: a session start answers from the order it computed, not from
\* the cache
ServeOwnOrder(p) ==
    /\ pc[p] = "serve"
    /\ \E random \in Sides :
       \E template \in {IF sorted[p] # << >>
                        THEN CardTemplate(sorted[p][1], sorted[p],
                                          params[p].deck_id, params[p].index,
                                          params[p].side, random)
                        ELSE Template(active_decks, params[p], random)} :
          /\ response' = [response EXCEPT ![p] = template]
          /\ ended' = IF template = EndTemplate(params[p].deck_id)
                      THEN ended \cup {params[p].deck_id} ELSE ended
    /\ lock' = [lock EXCEPT !.readers = @ \ {p}]
    /\ pc' = [pc EXCEPT ![p] = "done"]
    /\ UNCHANGED <<api_response, store, now, active_decks, params, locals,
                   seen_before, last_write>>

\* lines 204-271: the response is built from the entry read under the read
\* guard; the guard is dropped when the handler returns
Serve(p) ==
    /\ pc[p] = "serve"
    /\ \E random \in Sides :
       \E template \in {Template(active_decks, params[p], random)} :
          /\ response' = [response EXCEPT ![p] = template]
          /\ ended' = IF template = EndTemplate(params[p].deck_id)
                      THEN ended \cup {params[p].deck_id} ELSE ended
    /\ lock' = [lock EXCEPT !.readers = @ \ {p}]
    /\ pc' = [pc EXCEPT ![p] = "done"]
    /\ UNCHANGED <<api_response, store, now, active_decks, params, locals,
                   seen_before, last_write>>

TaskStep(p) ==
    \/ \E d \in DeckIds, i \in 0 .. MaxIndex, s \in Sides : Request(p, d, i, s)
    \/ ReadDeckOk(p)
    \/ ReadDeckErr(p)
    \/ UpdateDeckOk(p)
    \/ UpdateDeckErr(p)
    \/ ReadCardsOk(p)
    \/ ReadCardsErr(p)
    \/ AcquireWrite(p)
    \/ Insert(p)
    \/ AcquireRead(p)
    \/ Serve(p)

\* requests handled one at a time
Next == \E p \in SeqTasks : TaskStep(p)

Spec == Init /\ [][Next]_vars

\* A session start on deck 1 whose store calls all succeed: the scheduler
\* applied to the cards in the store.
SchedStep(p) ==
    \/ Request(p, 1, 0, "from")
    \/ ReadDeckOk(p)
    \/ UpdateDeckOk(p)
    \/ ReadCardsOk(p)
    \/ AcquireWrite(p)
    \/ Insert(p)
    \/ AcquireRead(p)
    \/ Serve(p)

NextSched == \E p \in SeqTasks : SchedStep(p)

SpecSched == InitSched /\ [][NextSched]_vars

\* Two decks of the user: deck 1 holds a card graded 4 after the deck was
\* last seen and an unrated older card, deck 2 holds one card.
ConcCards ==
    << Card(1, 1, 4, 2000), Card(2, 1, 0, 0), Card(3, 2, 2, 500) >>

InitConc ==
    StartUp(<< Deck(1, USER_ID, 0), Deck(2, USER_ID, 0) >>, {ConcCards})

\* the requests sent concurrently: session starts on both decks and a
\* position request on deck 1
ConcRequests == {<<1, 0, "from">>, <<2, 0, "from">>, <<1, 1, "to">>}

\* A request whose store calls all succeed, served within one reading of the
\* clock.
ConcStep(p) ==
    \/ \E r \in ConcRequests : Request(p, r[1], r[2], r[3])
    \/ ReadDeckOk(p) /\ now' = now
    \/ UpdateDeckOk(p)
    \/ ReadCardsOk(p)
    \/ AcquireWrite(p)
    \/ Insert(p)
    \/ AcquireRead(p)
    \/ Serve(p)

\* requests handled concurrently, one tokio task each
NextConc == \E p \in Tasks : ConcStep(p)

SpecConc == InitConc /\ [][NextConc]_vars

\* Session starts on deck 1 whose store calls all succeed, sent concurrently
\* while the clock advances.
ClockStep(p) ==
    \/ Request(p, 1, 0, "from")
    \/ ReadDeckOk(p)
    \/ UpdateDeckOk(p)
    \/ ReadCardsOk(p)
    \/ AcquireWrite(p)
    \/ Insert(p)
    \/ AcquireRead(p)
    \/ Serve(p)

NextClock == \E p \in Tasks : ClockStep(p)

SpecClock == InitConc /\ [][NextClock]_vars

\* the requests sent concurrently when requests may fault: session starts
\* on deck 1 and on deck 2
LockRequests == {<<1, 0, "from">>, <<2, 0, "from">>}

\* A session start that may fault: its update may fail and its deck row may
\* be missing; served within one reading of the clock.
LockStep(p) ==
    \/ \E r \in LockRequests : Request(p, r[1], r[2], r[3])
    \/ ReadDeckOk(p) /\ now' = now
    \/ UpdateDeckOk(p)
    \/ UpdateDeckErr(p)
    \/ ReadCardsOk(p)
    \/ AcquireWrite(p)
    \/ Insert(p)
    \/ AcquireRead(p)
    \/ Serve(p)

\* deck 1 with one card; deck 2 has no row
InitLock == InitWith({<< <<2, 0>> >>})

NextLock == \E p \in Tasks : LockStep(p)

\* the steps a task takes on its own once it is polled
Progress(p) ==
    \/ ReadDeckOk(p)
    \/ UpdateDeckOk(p) \/ UpdateDeckErr(p)
    \/ ReadCardsOk(p)
    \/ Insert(p)
    \/ Serve(p)

\* the steps in which a task is handed a guard
Acquire(p) == AcquireWrite(p) \/ AcquireRead(p)

\* A request that arrived runs to its end: the runtime keeps polling a task
\* whose store call completed, and a thread waiting for the lock gets it
\* when guards keep being released.
FairLock == \A p \in Tasks : WF_vars(Progress(p)) /\ SF_vars(Acquire(p))

SpecLock == InitLock /\ [][NextLock]_vars /\ FairLock

\* ------------------------------------------------------------ the card API
\* what a card API request leaves alone
handlers == <<decks, users, now, active_decks, pc, params, locals, response,
              lock, history>>

\* post_card: 401 unless the uuid matches; create_card_query refuses a form
\* without from_text or to_text_primary, and otherwise inserts a row whose
\* id, rating and timestamps are the table's defaults
PostCard(deck_id, uuid_ok, form_ok) ==
    /\ card_seq <= MaxCardId
    /\ IF uuid_ok /\ form_ok
       THEN /\ cards' = Append(cards, Card(card_seq, deck_id, 0, now))
            /\ card_seq' = card_seq + 1
       ELSE UNCHANGED <<cards, card_seq>>
    /\ api_response' = ApiReply(uuid_ok)
    /\ UNCHANGED handlers

\* UPDATE cards SET rating = $1 WHERE id = $2 AND deck_id = $3; whether the
\* table bumps updated_at on its own is left open (bump)
update_card_query(table, deck_id, card_id, rating, bump) ==
    [i \in DOMAIN table |->
        IF table[i].id = card_id /\ table[i].deck_id = deck_id
        THEN [table[i] EXCEPT !.rating = rating,
                              !.updated_at = IF bump THEN now ELSE @]
        ELSE table[i]]

\* variant: the update is also written through to the cached snapshots
PutCardWriteThrough(deck_id, card_id, rating, uuid_ok) ==
    /\ \E bump \in BOOLEAN :
          IF uuid_ok
          THEN /\ cards' = update_card_query(cards, deck_id, card_id, rating, bump)
               /\ active_decks' =
                     [d \in DOMAIN active_decks |->
                         update_card_query(active_decks[d], deck_id, card_id,
                                           rating, bump)]
          ELSE UNCHANGED <<cards, active_decks>>
    /\ api_response' = ApiReply(uuid_ok)
    /\ UNCHANGED <<decks, card_seq, users, now, pc, params, locals, response,
                   lock, history>>

\* put_card: 401 unless the uuid matches; the submitted rating is bound into
\* the UPDATE as it is
PutCard(deck_id, card_id, rating, uuid_ok) ==
    /\ \E bump \in BOOLEAN :
          cards' = IF uuid_ok
                   THEN update_card_query(cards, deck_id, card_id, rating, bump)
                   ELSE cards
    /\ api_response' = ApiReply(uuid_ok)
    /\ UNCHANGED <<card_seq, handlers>>

\* DELETE FROM cards WHERE id = $1 AND deck_id = $2
delete_card_query(table, deck_id, card_id) ==
    SelectSeq(table, LAMBDA c : ~(c.id = card_id /\ c.deck_id = deck_id))

\* delete_card: 401 unless the uuid matches
DeleteCard(deck_id, card_id, uuid_ok) ==
    /\ cards' = IF uuid_ok THEN delete_card_query(cards, deck_id, card_id) ELSE cards
    /\ api_response' = ApiReply(uuid_ok)
    /\ UNCHANGED <<card_seq, handlers>>

\* the card API requests sent
CardApi ==
    \/ \E uuid_ok, form_ok \in BOOLEAN : PostCard(1, uuid_ok, form_ok)
    \/ \E id \in ApiCardIds, r \in SubmittedRatings, uuid_ok \in BOOLEAN :
          PutCard(1, id, r, uuid_ok)
    \/ \E id \in ApiCardIds, uuid_ok \in BOOLEAN : DeleteCard(1, id, uuid_ok)

\* the page requests sent between card API requests
ApiRequests == {<<1, 0, "from">>, <<1, 1, "to">>}

\* A page request whose store calls all succeed, served within one reading
\* of the clock.
ApiPageStep(p) ==
    \/ \E r \in ApiRequests : Request(p, r[1], r[2], r[3])
    \/ ReadDeckOk(p) /\ now' = now
    \/ UpdateDeckOk(p)
    \/ ReadCardsOk(p)
    \/ AcquireWrite(p)
    \/ Insert(p)
    \/ AcquireRead(p)
    \/ Serve(p)

InitApi == InitWith({ScenarioList})

NextApi == CardApi \/ \E p \in SeqTasks : ApiPageStep(p)

SpecApi == InitApi /\ [][NextApi]_vars

\* ---------------------------------------------------------- deletions
\* DELETE FROM decks WHERE id = $1 AND user_id = $2
delete_deck_query(table, deck_id, user_id) ==
    SelectSeq(table, LAMBDA d : ~(d.id = deck_id /\ d.user_id = user_id))

\* variant: deleting a deck also evicts its cache entry
DeleteDeckEvicts(deck_id, uuid_ok) ==
    /\ \E cascade \in BOOLEAN :
          IF uuid_ok
          THEN /\ decks' = delete_deck_query(decks, deck_id, USER_ID)
               /\ cards' = IF cascade
                           THEN SelectSeq(cards, LAMBDA c : c.deck_id # deck_id)
                           ELSE cards
               /\ active_decks' = [d \in DOMAIN active_decks \ {deck_id} |->
                                      active_decks[d]]
          ELSE UNCHANGED <<decks, cards, active_decks>>
    /\ api_response' = ApiReply(uuid_ok)
    /\ UNCHANGED <<card_seq, users, now, pc, params, locals, response, lock,
                   history>>

\* delete_deck: 401 unless the uuid matches; whether the cards table drops
\* the deck's cards along with the deck row is left open (cascade)
DeleteDeck(deck_id, uuid_ok) ==
    /\ \E cascade \in BOOLEAN :
          IF uuid_ok
          THEN /\ decks' = delete_deck_query(decks, deck_id, USER_ID)
               /\ cards' = IF cascade
                           THEN SelectSeq(cards, LAMBDA c : c.deck_id # deck_id)
                           ELSE cards
          ELSE UNCHANGED <<decks, cards>>
    /\ api_response' = ApiReply(uuid_ok)
    /\ UNCHANGED <<card_seq, users, now, active_decks, pc, params, locals,
                   response, lock, history>>

\* the deletions sent: the deck, and each of its cards
Deletions ==
    \/ \E uuid_ok \in BOOLEAN : DeleteDeck(1, uuid_ok)
    \/ \E id \in DeletedCardIds, uuid_ok \in BOOLEAN : DeleteCard(1, id, uuid_ok)

\* page requests and deletions, one at a time
NextDel == Deletions \/ \E p \in SeqTasks : ApiPageStep(p)

SpecDel == InitApi /\ [][NextDel]_vars

\* ------------------------------------------------------- the whole JSON API
\* get_users, get_user, get_decks, get_deck, get_cards, get_card: 401 unless
\* the uuid matches, otherwise one SELECT
Get(uuid_ok) ==
    /\ api_response' = ApiReply(uuid_ok)
    /\ UNCHANGED <<cards, card_seq, handlers>>

\* post_user: 401 unless the uuid matches; create_user_query refuses a form
\* without name or email, and otherwise inserts a row with a new id
PostUser(name, uuid_ok, form_ok) ==
    /\ IF uuid_ok /\ form_ok
       THEN \E id \in UserIds \ {users[i].id : i \in DOMAIN users} :
               users' = Append(users, User(id, name))
       ELSE users' = users
    /\ api_response' = ApiReply(uuid_ok)
    /\ UNCHANGED <<decks, cards, card_seq, now, active_decks, pc, params, locals,
                   response, lock, history>>

\* UPDATE users SET name = $1 WHERE id = $2
update_user_query(table, user_id, name) ==
    [i \in DOMAIN table |->
        IF table[i].id = user_id THEN [table[i] EXCEPT !.name = name] ELSE table[i]]

\* put_user: 401 unless the uuid matches
PutUser(user_id, name, uuid_ok) ==
    /\ users' = IF uuid_ok THEN update_user_query(users, user_id, name) ELSE users
    /\ api_response' = ApiReply(uuid_ok)
    /\ UNCHANGED <<decks, cards, card_seq, now, active_decks, pc, params, locals,
                   response, lock, history>>

\* DELETE FROM users WHERE id = $1
delete_user_query(table, user_id) ==
    SelectSeq(table, LAMBDA u : u.id # user_id)

\* delete_user: 401 unless the uuid matches
DeleteUser(user_id, uuid_ok) ==
    /\ users' = IF uuid_ok THEN delete_user_query(users, user_id) ELSE users
    /\ api_response' = ApiReply(uuid_ok)
    /\ UNCHANGED <<decks, cards, card_seq, now, active_decks, pc, params, locals,
                   response, lock, history>>

\* post_deck: 401 unless the uuid matches; create_deck_query refuses a form
\* without from_language or to_language_primary, and otherwise inserts a
\* row of the user with a new id
PostDeck(uuid_ok, form_ok) ==
    /\ IF uuid_ok /\ form_ok
       THEN \E id \in DeckIds \ {decks[i].id : i \in DOMAIN decks} :
               decks' = Append(decks, Deck(id, USER_ID, now))
       ELSE decks' = decks
    /\ api_response' = ApiReply(uuid_ok)
    /\ UNCHANGED <<cards, card_seq, users, now, active_decks, pc, params, locals,
                   response, lock, history>>

\* variant: the update runs whatever the uuid is
PutDeckUnchecked(deck_id, seen_at, uuid_ok) ==
    /\ decks' = update_deck_query(decks, deck_id, seen_at, USER_ID)
    /\ api_response' = ApiReply(uuid_ok)
    /\ UNCHANGED <<cards, card_seq, users, now, active_decks, pc, params, locals,
                   response, lock, history>>

\* put_deck: 401 unless the uuid matches; the submitted seen_at is written
\* to the user's deck
PutDeck(deck_id, seen_at, uuid_ok) ==
    /\ decks' = IF uuid_ok
                THEN update_deck_query(decks, deck_id, seen_at, USER_ID)
                ELSE decks
    /\ api_response' = ApiReply(uuid_ok)
    /\ UNCHANGED <<cards, card_seq, users, now, active_decks, pc, params, locals,
                   response, lock, history>>

\* the user and deck API requests sent
UserApi ==
    \/ \E name \in UserNames, uuid_ok, form_ok \in BOOLEAN :
          PostUser(name, uuid_ok, form_ok)
    \/ \E id \in UserIds, name \in UserNames, uuid_ok \in BOOLEAN :
          PutUser(id, name, uuid_ok)
    \/ \E id \in UserIds, uuid_ok \in BOOLEAN : DeleteUser(id, uuid_ok)

DeckApi ==
    \/ \E uuid_ok, form_ok \in BOOLEAN : PostDeck(uuid_ok, form_ok)
    \/ \E id \in DeckIds, t \in ClockTimes, uuid_ok \in BOOLEAN : PutDeck(id, t, uuid_ok)
    \/ \E uuid_ok \in BOOLEAN : DeleteDeck(1, uuid_ok)

\* JSON API requests with and without the configured uuid, one at a time
NextAuth ==
    \/ \E uuid_ok \in BOOLEAN : Get(uuid_ok)
    \/ UserApi
    \/ DeckApi
    \/ CardApi

SpecAuth == InitLock /\ [][NextAuth]_vars

\* ------------------------------------------------------------ properties
Range(s) == {s[i] : i \in DOMAIN s}

\* Task p has run a session start through the scheduler (lines 142-195).
Computed(p) ==
    /\ pc[p] \in {"write_lock", "insert", "read_lock", "serve", "done"}
    /\ StartsSession(params[p])
    /\ deck_result[p].ok
    /\ cards_result[p].ok

\* Task p has also stored its order (line 199).
Stored(p) == Computed(p) /\ pc[p] \in {"read_lock", "serve", "done"}

\* the cards task p fetched, and the seen_at it read before its own update
Fetched(p) == cards_result[p].rows
SeenAtRead(p) == deck_result[p].rows[1].seen_at

\* bucket 1: graded 4 and updated after the deck was last seen
Due(c, seen_at) == c.rating = 4 /\ c.updated_at > seen_at

\* bucket 2: never rated
Unrated(c) == c.rating = 0

\* bucket 3: the cards no earlier bucket holds that are visited, youngest
\* first, while fewer than the quota of distinct ids are weighted
FillQuotaIds(fetched, seen_at) ==
    LET by_age == SortByUpdatedAt(fetched)
        first == {c.id : c \in {d \in Range(fetched) : Due(d, seen_at) \/ Unrated(d)}}
        Earlier(k) == {j \in 1 .. k - 1 : by_age[j].id \notin first}
    IN  {by_age[k].id : k \in
            {k \in DOMAIN by_age :
                /\ by_age[k].id \notin first
                /\ Cardinality(first) + Cardinality(Earlier(k)) < DAILY_REVIEW_COUNT}}

\* the fetched cards in none of the buckets 1-3: those weighted by the
\* recency rule alone
RecencyOnly(fetched, seen_at) ==
    LET fill == FillQuotaIds(fetched, seen_at)
    IN  {c \in Range(fetched) :
            ~Due(c, seen_at) /\ ~Unrated(c) /\ c.id \notin fill}

AllSameTime(cs) == \A i, j \in DOMAIN cs : cs[i].updated_at = cs[j].updated_at

\* C1: the order a session start stores in active_decks is a permutation of
\* the cards it fetched: every fetched id occurs exactly once, and every
\* stored card is a fetched card.
C1_StoredIsPermutation ==
    \A p \in Tasks :
        Stored(p) =>
            LET stored == active_decks[params[p].deck_id]
            IN  /\ \A i \in DOMAIN Fetched(p) :
                      Cardinality({j \in DOMAIN stored :
                                      stored[j].id = Fetched(p)[i].id}) = 1
                /\ \A j \in DOMAIN stored : stored[j] \in Range(Fetched(p))

\* C1 witness: a deck longer than the quota was stored in an order that
\* differs from the order the store returned.
C1_Witness ==
    \E p \in Tasks :
        /\ Stored(p)
        /\ pc[p] = "done"
        /\ Len(Fetched(p)) > DAILY_REVIEW_COUNT
        /\ active_decks[params[p].deck_id] # Fetched(p)

\* C2: in the computed order every card in bucket 1 (rating 4, updated after
\* the seen_at read before this request's update) stands ahead of every card
\* that is in none of the buckets 1-3.
C2_DueAheadOfRecency ==
    \A p \in Tasks :
        Computed(p) =>
            LET recency == RecencyOnly(Fetched(p), SeenAtRead(p))
            IN  \A i, j \in DOMAIN sorted[p] :
                    (Due(sorted[p][i], SeenAtRead(p)) /\ sorted[p][j] \in recency)
                    => i < j

\* C2 witness: an order holding a bucket-1 card and a younger card of no
\* bucket.
C2_Witness ==
    \E p \in Tasks :
        /\ Computed(p)
        /\ \E i, j \in DOMAIN sorted[p] :
              /\ Due(sorted[p][i], SeenAtRead(p))
              /\ sorted[p][j] \in RecencyOnly(Fetched(p), SeenAtRead(p))
              /\ sorted[p][j].updated_at > sorted[p][i].updated_at

\* C3: in the computed order every card of rating 0 stands ahead of every
\* card whose weight comes from the recency rule alone.
C3_UnratedAheadOfRecency ==
    \A p \in Tasks :
        Computed(p) =>
            LET recency == RecencyOnly(Fetched(p), SeenAtRead(p))
            IN  \A i, j \in DOMAIN sorted[p] :
                    (Unrated(sorted[p][i]) /\ sorted[p][j] \in recency)
                    => i < j

\* C3 witness: an order holding an unrated card and a younger card of no
\* bucket.
C3_Witness ==
    \E p \in Tasks :
        /\ Computed(p)
        /\ \E i, j \in DOMAIN sorted[p] :
              /\ Unrated(sorted[p][i])
              /\ sorted[p][j] \in RecencyOnly(Fetched(p), SeenAtRead(p))
              /\ sorted[p][j].updated_at > sorted[p][i].updated_at

\* C4 (as claimed): the cards weighted by the fill-quota rule keep the weight
\* 100,000 in the final weight map, so a deck of N cards ends with at least
\* min(N, 9) cards of weight >= 100,000.
C4_FillQuotaKept ==
    \A p \in Tasks :
        Computed(p) =>
            /\ \A id \in FillQuotaIds(Fetched(p), SeenAtRead(p)) :
                  weights[p][id] = WEIGHT_FRONT
            /\ Cardinality({id \in DOMAIN weights[p] : weights[p][id] >= WEIGHT_FRONT})
                  >= (IF Len(Fetched(p)) < DAILY_REVIEW_COUNT
                      THEN Len(Fetched(p)) ELSE DAILY_REVIEW_COUNT)

\* C5 (as claimed): for the deck A (rating 0, t0), C (rating 2, t1),
\* B (rating 4, t2) with seen_at = t0, the weights are B = 1,000,000,
\* A = 100,000, C = 100,000 and the order is [B, C, A].
C5_ScenarioOrder ==
    \A p \in Tasks :
        (/\ Computed(p)
         /\ Fetched(p) = MkCards(ScenarioList)
         /\ SeenAtRead(p) = 0)
        => LET A == Fetched(p)[1]
               C == Fetched(p)[2]
               B == Fetched(p)[3]
           IN  /\ weights[p][B.id] = WEIGHT_DUE
               /\ weights[p][A.id] = WEIGHT_FRONT
               /\ weights[p][C.id] = WEIGHT_FRONT
               /\ sorted[p] = <<B, C, A>>

\* C6: when all fetched cards share one updated_at, a session start whose
\* store calls succeed does not fault, and every card reaching the recency
\* rule is weighted by exactly its rating.
C6_ZeroSpanWeight ==
    \A p \in Tasks :
        (/\ StartsSession(params[p])
         /\ deck_result[p].ok /\ deck_result[p].rows # << >>
         /\ cards_result[p].ok /\ Fetched(p) # << >>
         /\ AllSameTime(Fetched(p)))
        => /\ pc[p] # "panicked"
           /\ \A i \in DOMAIN Fetched(p) :
                 LET c == Fetched(p)[i]
                 IN  (~Due(c, SeenAtRead(p)) /\ ~Unrated(c))
                     => weights[p][c.id] = c.rating

\* C6 witness: a finished session start over two or more cards of one
\* updated_at, one of them weighted by the recency rule.
C6_Witness ==
    \E p \in Tasks :
        /\ pc[p] = "done"
        /\ Computed(p)
        /\ Len(Fetched(p)) >= 2
        /\ AllSameTime(Fetched(p))
        /\ \E i \in DOMAIN Fetched(p) :
              /\ Fetched(p)[i].rating \in 1 .. 3
              /\ weights[p][Fetched(p)[i].id] = Fetched(p)[i].rating

\* C7: without interleaved requests, a session start that computed an order
\* returns the first card of that order.
C7_ReturnsComputedHead ==
    \A p \in Tasks :
        (pc[p] = "done" /\ Computed(p))
        => /\ response[p].card = sorted[p][1]
           /\ response[p].num_cards = Len(sorted[p])
           /\ response[p].index = 0

\* C7 witness: the head returned differs from the head of the entry cached
\* when the request arrived.
C7_Witness ==
    \E p \in Tasks :
        /\ pc[p] = "done"
        /\ Computed(p)
        /\ params[p].deck_id \in DOMAIN prior[p]
        /\ prior[p][params[p].deck_id][1] # sorted[p][1]
        /\ response[p].card = sorted[p][1]

\* C8: a request that starts no session ends with the End template, and not
\* with a fault, when the deck has no entry or the index is past the entry.
C8_EndWhenOutOfRange ==
    \A p \in Tasks :
        (/\ pc[p] \in {"done", "panicked"}
         /\ ~StartsSession(params[p])
         /\ \/ params[p].deck_id \notin DOMAIN active_decks
            \/ params[p].index >= Len(active_decks[params[p].deck_id]))
        => /\ pc[p] = "done"
           /\ response[p] = EndTemplate(params[p].deck_id)

\* C8 witness: the End template was returned for an index past a cached
\* entry.
C8_Witness ==
    \E p \in Tasks :
        /\ pc[p] = "done"
        /\ ~StartsSession(params[p])
        /\ params[p].deck_id \in DOMAIN active_decks
        /\ params[p].index >= Len(active_decks[params[p].deck_id])
        /\ response[p] = EndTemplate(params[p].deck_id)

\* C9 (as claimed): whatever the three store calls of a session start
\* return, page_action never ends with a panic.
C9_NeverPanics ==
    \A p \in Tasks : StartsSession(params[p]) => pc[p] # "panicked"

\* C10 (as claimed): when the deck read or the card read of a session start
\* failed, the request ends with active_decks as it was on arrival and with
\* position 0 of the prior entry, or the End template if there was none.
C10_StaleEntryServed ==
    \A p \in Tasks :
        (/\ pc[p] \in {"done", "panicked"}
         /\ StartsSession(params[p])
         /\ (deck_result[p].err \/ cards_result[p].err))
        => LET d == params[p].deck_id
           IN  /\ active_decks = prior[p]
               /\ pc[p] = "done"
               /\ IF d \in DOMAIN prior[p]
                  THEN \E random \in Sides :
                          response[p] = CardTemplate(prior[p][d][1], prior[p][d],
                                                     d, 0, "from", random)
                  ELSE response[p] = EndTemplate(d)

\* C11 (as claimed): a session start on an existing deck without cards, all
\* store calls succeeding, completes without a fault: the computed order is
\* empty and the request returns the End template.
C11_EmptyDeckEnds ==
    \A p \in Tasks :
        (/\ pc[p] \in {"done", "panicked"}
         /\ StartsSession(params[p])
         /\ deck_result[p].ok /\ deck_result[p].rows # << >>
         /\ cards_result[p].ok /\ Fetched(p) = << >>)
        => /\ pc[p] = "done"
           /\ sorted[p] = << >>
           /\ response[p] = EndTemplate(params[p].deck_id)

\* C12 (as claimed): a session start whose read_deck succeeds without a row,
\* the other store calls succeeding, returns the End template.
C12_MissingDeckEnds ==
    \A p \in Tasks :
        (/\ pc[p] \in {"done", "panicked"}
         /\ StartsSession(params[p])
         /\ deck_result[p].ok /\ deck_result[p].rows = << >>
         /\ cards_result[p].ok)
        => /\ pc[p] = "done"
           /\ response[p] = EndTemplate(params[p].deck_id)

\* Task p's session start has executed its update of seen_at.
Updated(p) ==
    /\ StartsSession(params[p])
    /\ pc[p] \in {"read_cards", "write_lock", "insert", "read_lock", "serve", "done"}

\* C13: without interleaved requests, a session start reads the deck row,
\* then persists seen_at = now, then fetches the cards, then stores the
\* order; and rule 1 compares each card's updated_at with the seen_at the
\* deck had right before the request's own write, not with the value written.
C13_SeenAtBeforeOwnWrite ==
    \A p \in Tasks :
        LET d == params[p].deck_id
        IN  /\ pc[p] = "update_deck" =>
                  /\ deck_result[p] # Pending
                  /\ cards_result[p] = Pending
            /\ (Updated(p) /\ deck_result[p].ok) =>
                  /\ deck_result[p].rows = seen_before[p]
                  /\ \A i \in DOMAIN decks :
                        (decks[i].id = d /\ decks[i].user_id = USER_ID)
                        => decks[i].seen_at = seen_arg[p]
            /\ pc[p] = "read_cards" => cards_result[p] = Pending
            /\ (Computed(p) /\ pc[p] \in {"write_lock", "insert"}) =>
                  active_decks = prior[p]
            /\ Stored(p) => active_decks[d] = sorted[p]
            /\ Computed(p) =>
                  \A i \in DOMAIN Fetched(p) :
                      LET c == Fetched(p)[i]
                      IN  c.rating = 4 =>
                              (weights[p][c.id] = WEIGHT_DUE
                                  <=> seen_before[p][1].seen_at < c.updated_at)

\* C13 witness: a finished session start weighted a rating-4 card as due
\* that was updated after the deck's earlier seen_at but not after the
\* seen_at the request itself wrote.
C13_Witness ==
    \E p \in Tasks :
        /\ pc[p] = "done"
        /\ Computed(p)
        /\ \E i \in DOMAIN Fetched(p) :
              LET c == Fetched(p)[i]
              IN  /\ c.rating = 4
                  /\ seen_before[p][1].seen_at < c.updated_at
                  /\ c.updated_at <= seen_arg[p]
                  /\ weights[p][c.id] = WEIGHT_DUE

\* C14: every step of a request with position # 0 or side # "from" leaves
\* every active_decks entry and every deck row (its seen_at included)
\* unchanged.
C14_OnlySessionStartWrites ==
    [][\A p \in Tasks :
          (/\ pc'[p] # pc[p]
           /\ (params'[p].index # 0 \/ params'[p].side # "from"))
          => /\ active_decks' = active_decks
             /\ decks' = decks]_vars

\* C14 witness: a request with position 0 and side "to" was served a card
\* from an existing entry.
C14_Witness ==
    \E p \in Tasks :
        /\ pc[p] = "done"
        /\ params[p].index = 0 /\ params[p].side = "to"
        /\ params[p].deck_id \in DOMAIN active_decks
        /\ response[p] # EndTemplate(params[p].deck_id)

\* the ids of a list of cards
Ids(cs) == {cs[i].id : i \in DOMAIN cs}

\* C15: under any interleaving, no task holds the read guard while the write
\* guard is out, and every entry a task can observe under its read guard is
\* exactly the order last handed to the write guard for that deck by one
\* session start: all cards of the deck, each once.
C15_ReadersSeeWholeOrders ==
    /\ lock.writer # 0 => lock.readers = {}
    /\ \A p \in Tasks :
          pc[p] = "serve" =>
              /\ p \in lock.readers
              /\ \A d \in DOMAIN active_decks :
                    /\ d \in DOMAIN last_write
                    /\ active_decks[d] = last_write[d].order
                    /\ Ids(active_decks[d]) = Ids(read_cards_query(cards, d))
                    /\ Len(active_decks[d]) = Len(read_cards_query(cards, d))

\* C15 witness: a task reads the entry of a deck under its read guard while
\* another task waits for the write guard with a different order for the
\* same deck.
C15_Witness ==
    \E p, q \in Tasks :
        /\ pc[p] = "serve"
        /\ pc[q] = "write_lock"
        /\ params[p].deck_id = params[q].deck_id
        /\ params[p].deck_id \in DOMAIN active_decks
        /\ active_decks[params[p].deck_id] # sorted[q]

\* C16: the insert of a session start for deck d sets the entry of d to the
\* order that request computed, whatever the entry was, and leaves every
\* other entry as it is; and once no request is in flight, the entry of a
\* deck is the order of the request that took the write guard for it last.
C16_LastWriterWins ==
    /\ [][\A p \in Tasks :
             (pc[p] = "insert" /\ pc'[p] # "insert") =>
                 /\ DOMAIN active_decks' = DOMAIN active_decks \cup {params[p].deck_id}
                 /\ active_decks'[params[p].deck_id] = sorted[p]
                 /\ \A d \in DOMAIN active_decks :
                       d # params[p].deck_id => active_decks'[d] = active_decks[d]]_vars
    /\ []((\A p \in Tasks : pc[p] \in {"idle", "done"}) =>
             \A d \in DOMAIN active_decks :
                 /\ d \in DOMAIN last_write
                 /\ active_decks[d] = last_write[d].order
                 /\ LET q == last_write[d].by
                    IN  (Computed(q) /\ params[q].deck_id = d)
                        => active_decks[d] = sorted[q])

\* C16 witness: two session starts for deck 1 that arrived at the same cache
\* computed different orders; both have finished, the entry is the order of
\* the one that took the write guard last, and deck 2 has an entry.
C16_Witness ==
    /\ \A p \in Tasks :
          /\ pc[p] = "done"
          /\ Computed(p)
          /\ params[p].deck_id = 1
    /\ prior[1] = prior[2]
    /\ sorted[1] # sorted[2]
    /\ 2 \in DOMAIN active_decks
    /\ active_decks[1] = sorted[last_write[1].by]

\* C17: a step that changes the cards table leaves active_decks as it is,
\* and a position request inside the entry returns the card at that position
\* of the order the last session start computed, whatever happened to the
\* stored cards since.
C17_SnapshotsSurviveMutations ==
    /\ [][cards' # cards => active_decks' = active_decks]_vars
    /\ [](\A p \in Tasks :
             LET d == params[p].deck_id
             IN  (/\ pc[p] = "done"
                  /\ ~StartsSession(params[p])
                  /\ d \in DOMAIN last_write
                  /\ params[p].index < Len(last_write[d].order))
                 => /\ response[p].card = last_write[d].order[params[p].index + 1]
                    /\ response[p].num_cards = Len(last_write[d].order))

\* C17 witness: a position request returned a snapshot that is no row of the
\* cards table any more, from an entry whose length differs from the number
\* of cards the deck now has.
C17_Witness ==
    \E p \in Tasks :
        /\ pc[p] = "done"
        /\ ~StartsSession(params[p])
        /\ params[p].deck_id \in DOMAIN active_decks
        /\ response[p] # EndTemplate(params[p].deck_id)
        /\ response[p].card \notin Range(cards)
        /\ response[p].num_cards # Len(read_cards_query(cards, params[p].deck_id))

\* C18: a request that starts no session, for a deck with an entry of length
\* n and a position below n, returns the card stored at that position with
\* num_cards = n, the requested position, deck id and side.
C18_GetAtReturnsEntry ==
    \A p \in Tasks :
        LET d == params[p].deck_id
        IN  (/\ pc[p] = "done"
             /\ ~StartsSession(params[p])
             /\ d \in DOMAIN active_decks
             /\ params[p].index < Len(active_decks[d]))
            => /\ response[p].card = active_decks[d][params[p].index + 1]
               /\ response[p].num_cards = Len(active_decks[d])
               /\ response[p].index = params[p].index
               /\ response[p].deck_id = d
               /\ response[p].side = params[p].side

\* C18 witness: the card at a position past the head of an entry was
\* returned.
C18_Witness ==
    \E p \in Tasks :
        /\ pc[p] = "done"
        /\ ~StartsSession(params[p])
        /\ params[p].deck_id \in DOMAIN active_decks
        /\ params[p].index > 0
        /\ params[p].index < Len(active_decks[params[p].deck_id])
        /\ response[p].card = active_decks[params[p].deck_id][params[p].index + 1]
        /\ response[p].card # active_decks[params[p].deck_id][1]

\* C19: after the End template was returned for a deck, a session start for
\* that deck whose store calls succeed, on a deck row that exists and has
\* cards, stores a newly computed order and returns its first card, a card
\* of the deck.
C19_ExhaustedNotAbsorbing ==
    \A p \in Tasks :
        LET d == params[p].deck_id
        IN  (/\ pc[p] \in {"done", "panicked"}
             /\ StartsSession(params[p])
             /\ d \in ended
             /\ deck_result[p].ok /\ deck_result[p].rows # << >>
             /\ cards_result[p].ok /\ Fetched(p) # << >>)
            => /\ pc[p] = "done"
               /\ active_decks[d] = sorted[p]
               /\ response[p] # EndTemplate(d)
               /\ response[p].card = sorted[p][1]
               /\ response[p].card \in Range(Fetched(p))

\* C19 witness: a session start returned a card for a deck that had an entry
\* on arrival and for which the End template had been returned before.
C19_Witness ==
    \E p \in Tasks :
        /\ pc[p] = "done"
        /\ Computed(p)
        /\ params[p].deck_id \in ended
        /\ params[p].deck_id \in DOMAIN prior[p]
        /\ response[p].card = sorted[p][1]

\* C20 (as claimed): after any sequence of card API requests every stored
\* card's rating is one of 0, 1, 2, 3, 4.
C20_RatingInRange ==
    \A i \in DOMAIN cards : cards[i].rating \in Ratings

\* the youngest and the oldest updated_at among the fetched cards
Youngest(fetched) == SortByUpdatedAt(fetched)[1].updated_at
Oldest(fetched) == SortByUpdatedAt(fetched)[Len(fetched)].updated_at

\* ceil(age * 4 / span) over the timestamps as they are stored
ExactRecency(age, span) == (4 * age + span - 1) \div span

\* C21 (as claimed): when the fetched cards span more than zero time, every
\* card that reaches the recency rule is weighted rating + ceil(age * 4 /
\* span), age and span being differences of the stored updated_at values;
\* the recency part lies in 0..4, is 0 for a card as recent as the youngest
\* and 4 for a card as old as the oldest, and does not decrease with age.
C21_RecencyFormula ==
    \A p \in Tasks :
        (Computed(p) /\ Youngest(Fetched(p)) > Oldest(Fetched(p))) =>
            LET span == Youngest(Fetched(p)) - Oldest(Fetched(p))
                reach == {c \in Range(Fetched(p)) :
                             ~Due(c, SeenAtRead(p)) /\ ~Unrated(c)}
                Age(c) == Youngest(Fetched(p)) - c.updated_at
                Part(c) == weights[p][c.id] - c.rating
            IN  /\ \A c \in reach :
                      /\ Part(c) = ExactRecency(Age(c), span)
                      /\ Part(c) \in 0 .. 4
                      /\ Age(c) = 0 => Part(c) = 0
                      /\ Age(c) = span => Part(c) = 4
                /\ \A c, e \in reach : Age(c) <= Age(e) => Part(c) <= Part(e)

\* the position of the card with the given id in the list the store returned
FetchedAt(p, id) == CHOOSE i \in DOMAIN Fetched(p) : Fetched(p)[i].id = id

\* C22: the order a session start stores is sorted by weight, largest first;
\* of two cards with equal weight the one with the later updated_at comes
\* first, and cards equal in weight and updated_at keep the order in which
\* the store returned them.
C22_StableWeightOrder ==
    \A p \in Tasks :
        (Stored(p) /\ pc[p] = "done") =>
            LET stored == active_decks[params[p].deck_id]
                W(c) == weights[p][c.id]
            IN  \A i, j \in DOMAIN stored :
                    i < j =>
                        /\ W(stored[i]) >= W(stored[j])
                        /\ W(stored[i]) = W(stored[j]) =>
                              /\ stored[i].updated_at >= stored[j].updated_at
                              /\ stored[i].updated_at = stored[j].updated_at =>
                                    FetchedAt(p, stored[i].id) < FetchedAt(p, stored[j].id)

\* C22 witness: a stored order holds two cards of equal weight that the
\* store returned the other way round, the older one first.
C22_Witness ==
    \E p \in Tasks :
        /\ Stored(p) /\ pc[p] = "done"
        /\ LET stored == active_decks[params[p].deck_id]
           IN  \E i, j \in DOMAIN stored :
                  /\ i < j
                  /\ weights[p][stored[i].id] = weights[p][stored[j].id]
                  /\ stored[i].updated_at > stored[j].updated_at
                  /\ FetchedAt(p, stored[i].id) > FetchedAt(p, stored[j].id)

\* C23: every response that carries the End card (card id 0; stored cards
\* have positive ids) is the same value up to the echoed deck id, whatever
\* position and side were requested and whatever the cache holds.
C23_EndIsFixed ==
    \A p \in Tasks :
        (pc[p] = "done" /\ response[p].card.id = 0) =>
            /\ response[p].card.deck_id = 0
            /\ response[p].card.rating = 0
            /\ response[p].card.prev_rating = 0
            /\ response[p].card.updated_at = SENTINEL_TIME
            /\ response[p].num_cards = 0
            /\ response[p].index = 0
            /\ response[p].side = "from"
            /\ response[p].random = "from"
            /\ response[p].deck_id = params[p].deck_id

\* C23 witness: the End card was returned to a request for position 2 and
\* side "to" of a deck that has a non-empty entry.
C23_Witness ==
    \E p \in Tasks :
        /\ pc[p] = "done"
        /\ response[p].card.id = 0
        /\ params[p].index = 2 /\ params[p].side = "to"
        /\ params[p].deck_id \in DOMAIN active_decks
        /\ active_decks[params[p].deck_id] # << >>

\* C24: no step removes a key from active_decks; and a position request
\* that is answered when the deck's row or all of the deck's cards are
\* deleted from the store still returns the card at its position of the
\* deck's entry.
C24_EntriesNeverEvicted ==
    [][/\ \A d \in DOMAIN active_decks : d \in DOMAIN active_decks'
       /\ \A p \in Tasks :
             LET d == params[p].deck_id
             IN  (/\ pc[p] = "serve" /\ pc'[p] = "done"
                  /\ ~StartsSession(params[p])
                  /\ d \in DOMAIN active_decks
                  /\ params[p].index < Len(active_decks[d])
                  /\ \/ read_deck(decks, d, USER_ID) = << >>
                     \/ read_cards_query(cards, d) = << >>)
                 => /\ response'[p] # EndTemplate(d)
                    /\ response'[p].card = active_decks[d][params[p].index + 1]]_vars

\* C24 witness: deck 1 has lost its row and all of its cards, its entry is
\* still there and a position request was answered from it.
C24_Witness ==
    \E p \in Tasks :
        /\ pc[p] = "done"
        /\ ~StartsSession(params[p])
        /\ params[p].deck_id \in DOMAIN active_decks
        /\ read_deck(decks, params[p].deck_id, USER_ID) = << >>
        /\ read_cards_query(cards, params[p].deck_id) = << >>
        /\ response[p].card = active_decks[params[p].deck_id][params[p].index + 1]

\* C25 (as claimed): under any interleaving, a session start that computed
\* and stored an order returns the first card of the order it computed.
C25_ReturnsOwnHead ==
    \A p \in Tasks :
        (pc[p] = "done" /\ Computed(p)) => response[p].card = sorted[p][1]

\* C25 (amended): under any interleaving, a session start that computed and
\* stored an order returns the first card of the order the cache holds for
\* the deck when the request reads it under its read guard: the order handed
\* to the write guard last, which is its own unless another session start
\* for the deck stored an order after it.
C25_ReturnsLastStoredHead ==
    [][\A p \in Tasks :
          (pc[p] = "serve" /\ pc'[p] = "done" /\ Computed(p)) =>
              LET d == params[p].deck_id
              IN  /\ response'[p] # EndTemplate(d)
                  /\ response'[p].card = last_write[d].order[1]
                  /\ response'[p].num_cards = Len(last_write[d].order)
                  /\ last_write[d].by = p => response'[p].card = sorted[p][1]]_vars

\* C25 witness: a session start has computed and stored an order and has
\* returned the head of an order another task stored for the same deck.
C25_Witness ==
    \E p, q \in Tasks :
        /\ p # q
        /\ pc[p] = "done" /\ Computed(p)
        /\ Stored(q) /\ params[q].deck_id = params[p].deck_id
        /\ last_write[params[p].deck_id].by = q
        /\ response[p].card = sorted[q][1]
        /\ response[p].card # sorted[p][1]

\* C26 (as claimed): a session start that ends without replacing the deck's
\* entry (a store read failed, the deck row is missing, or the deck has no
\* cards) leaves the deck's seen_at at the value it had before the request.
C26_SeenAtKeptOnAbort ==
    \A p \in Tasks :
        (/\ pc[p] \in {"done", "panicked"}
         /\ StartsSession(params[p])
         /\ ~Stored(p))
        => LET rows == read_deck(decks, params[p].deck_id, USER_ID)
           IN  \A i \in DOMAIN seen_before[p] :
                   rows[i].seen_at = seen_before[p][i].seen_at

\* C27 (as claimed): with a clock that never goes back, no step of any
\* sequence or interleaving of session starts lowers the seen_at of a deck
\* row.
C27_SeenAtNeverDecreases ==
    [][\A i \in DOMAIN decks : decks'[i].seen_at >= decks[i].seen_at]_vars

\* Task p holds a guard on active_decks.
HoldsGuard(p) == lock.writer = p \/ p \in lock.readers

C29_EntriesNonEmpty ==
    /\ \A d \in DOMAIN active_decks : Len(active_decks[d]) >= 1
    /\ \A p \in Tasks :
          (pc[p] = "done" /\ response[p].card.id # 0) =>
              /\ response[p].num_cards >= 1
              /\ response[p].index < response[p].num_cards

\* C29 witness: a session start on a deck whose row exists and whose cards
\* were all deleted has ended, and the deck still has its earlier entry.
C29_Witness ==
    \E p \in Tasks :
        /\ pc[p] \in {"done", "panicked"}
        /\ StartsSession(params[p])
        /\ deck_result[p].ok /\ deck_result[p].rows # << >>
        /\ cards_result[p].ok /\ Fetched(p) = << >>
        /\ params[p].deck_id \in DOMAIN active_decks
        /\ Len(active_decks[params[p].deck_id]) >= 1

====
